---- MODULE Spec2Model ----
(***************************************************************************)
(* Collaborative-filtering core of the fashion recommender                 *)
(* (src/recommender/model.py) and the order in which src/app.py drives it: *)
(* build_pivot_table, compute_user_similarity, compute_item_similarity,    *)
(* then any number of recommend_for_user / recommend_similar_items calls.  *)
(*                                                                         *)
(* Numbers.  A rating is a natural number.  A pivot cell is a rational     *)
(* <<num, den>> in lowest terms, and <<0, 0>> is NaN (the absent cell).    *)
(* A similarity cell holds the SQUARE of the cosine as a rational in       *)
(* lowest terms: ratings are non-negative, so the cosine is non-negative   *)
(* and squaring keeps equality and order; 1.0 is <<1, 1>>, 0.0 is <<0, 1>>.*)
(* Arithmetic is exact; floating-point rounding is not modelled.           *)
(***************************************************************************)
EXTENDS Integers, Sequences, FiniteSets, TLC

VARIABLES
    ratings_df,     \* the rating table handed to build_pivot_table
    pivot,          \* app.py: pivot
    user_sim_df,    \* app.py: user_sim_df
    item_sim_df,    \* app.py: item_sim_df
    pc,             \* loaded, pivot, user_sim, ready, done (a ranking call
                    \* returned) or failed (a step raised)
    call,           \* the last ranking call and its arguments
    ranked,         \* index of the series sort_values returned in that call
    similar_users,  \* the index walked by the loop of recommend_for_user
    result,         \* the list the last ranking call returned
    raised          \* the exception that ended the last step, or "none"

vars == <<ratings_df, pivot, user_sim_df, item_sim_df, pc, call, ranked,
          similar_users, result, raised>>

(* ------------------------------ bounds -------------------------------- *)
MaxRecords == 3          \* rows of the rating table
MaxWideRecords == 4      \* rows of the rating table under SpecWide
MaxN == 2                \* n_recommendations ranges over 1..MaxN
Users == {1, 2, 3}
Items == {1, 2, 3}
Ratings == {0, 2}
Thresholds == {0, 1}
QueryUsers == Users \cup {4}
QueryItems == Items \cup {4}

(* --------------------------- rational numbers ------------------------- *)
RECURSIVE GCD(_, _)
GCD(a, b) == IF b = 0 THEN a ELSE GCD(b, a % b)

NaN == <<0, 0>>
Zero == <<0, 1>>
One == <<1, 1>>
Frac(n, d) == IF d = 0 THEN NaN ELSE <<n \div GCD(n, d), d \div GCD(n, d)>>
IsNaN(x) == x[2] = 0
RAdd(x, y) == Frac(x[1] * y[2] + y[1] * x[2], x[2] * y[2])
RMul(x, y) == Frac(x[1] * y[1], x[2] * y[2])
RDiv(x, y) == Frac(x[1] * y[2], x[2] * y[1])
RLess(x, y) == x[1] * y[2] < y[1] * x[2]

(* ------------------------------ sequences ----------------------------- *)
Range(s) == {s[k] : k \in DOMAIN s}

RECURSIVE SortedSeq(_)
SortedSeq(S) ==
    IF S = {} THEN <<>>
    ELSE LET m == CHOOSE x \in S : \A y \in S : x <= y
         IN <<m>> \o SortedSeq(S \ {m})

RECURSIVE SeqSum(_)
SeqSum(s) == IF s = <<>> THEN 0 ELSE Head(s) + SeqSum(Tail(s))

Take(s, n) == SubSeq(s, 1, IF n < Len(s) THEN n ELSE Len(s))

(* ------------------------------ rating table -------------------------- *)
Records == [User_ID : Users, Item_ID : Items, Rating : Ratings]

RecordKey(r) == (r.User_ID * 100 + r.Item_ID) * 100 + r.Rating

\* The tables of exactly k records, rows in ascending (user, item, rating)
\* order: pivot_table groups the rows by key, so one row order stands for all.
RECURSIVE Tables(_)
Tables(k) ==
    IF k = 0 THEN {<<>>}
    ELSE UNION {{Append(t, r) :
                    r \in {x \in Records :
                             t = <<>> \/ RecordKey(t[Len(t)]) <= RecordKey(x)}} :
                t \in Tables(k - 1)}

RatingTables == UNION {Tables(k) : k \in 0..MaxRecords}
WideRatingTables == UNION {Tables(k) : k \in 0..MaxWideRecords}

(* ------------------------- build_pivot_table -------------------------- *)
\* The ratings of the records of df with key (u, i), in row order.
GroupRatings(df, u, i) ==
    LET sel == SelectSeq(df, LAMBDA r : r.User_ID = u /\ r.Item_ID = i)
    IN [k \in 1..Len(sel) |-> sel[k].Rating]

\* Mean with aggfunc="sum" in place of "mean".
MeanAsSum(s) == IF Len(s) = 0 THEN NaN ELSE Frac(SeqSum(s), 1)

\* aggfunc="mean"; a group with no record leaves the cell NaN.
Mean(s) == IF Len(s) = 0 THEN NaN ELSE Frac(SeqSum(s), Len(s))

build_pivot_table(df) ==
    LET index == SortedSeq({df[k].User_ID : k \in DOMAIN df})
        columns == SortedSeq({df[k].Item_ID : k \in DOMAIN df})
    IN [index |-> index,
        columns |-> columns,
        values |-> [u \in Range(index), i \in Range(columns) |->
                        Mean(GroupRatings(df, u, i))]]

(* ------------------------- similarity matrices ------------------------ *)
fillna(p, v) ==
    [p EXCEPT !.values =
        [c \in DOMAIN p.values |-> IF IsNaN(p.values[c]) THEN v ELSE p.values[c]]]

Transpose(p) ==
    [index |-> p.columns,
     columns |-> p.index,
     values |-> [i \in Range(p.columns), u \in Range(p.index) |-> p.values[u, i]]]

RECURSIVE DotOver(_, _, _, _)
DotOver(X, a, b, cols) ==
    IF cols = <<>> THEN Zero
    ELSE RAdd(RMul(X.values[a, Head(cols)], X.values[b, Head(cols)]),
              DotOver(X, a, b, Tail(cols)))

Dot(X, a, b) == DotOver(X, a, b, X.columns)

\* Cosine2 dividing by the norms as they are: 0/0 for a zero row.
Cosine2Unguarded(X, a, b) ==
    RDiv(RMul(Dot(X, a, b), Dot(X, a, b)), RMul(Dot(X, a, a), Dot(X, b, b)))

\* sklearn normalises each row by its norm, a zero norm replaced by 1, and
\* multiplies: a zero row has cosine 0 with every row.  The cell is cosine^2.
Cosine2(X, a, b) ==
    IF Dot(X, a, a) = Zero \/ Dot(X, b, b) = Zero THEN Zero
    ELSE RDiv(RMul(Dot(X, a, b), Dot(X, a, b)), RMul(Dot(X, a, a), Dot(X, b, b)))

\* cosine_similarity validates its argument first and raises ValueError on
\* an array with no sample or no feature.
CheckArrayFails(X) == Len(X.index) = 0 \/ Len(X.columns) = 0

cosine_similarity(X) ==
    [a \in Range(X.index), b \in Range(X.index) |-> Cosine2(X, a, b)]

compute_user_similarity(p) ==
    [index |-> p.index, values |-> cosine_similarity(fillna(p, Zero))]

compute_item_similarity(p) ==
    [index |-> p.columns, values |-> cosine_similarity(Transpose(fillna(p, Zero)))]

(* ------------------------------ ranking ------------------------------- *)
\* InIndex with the membership test left out.
InIndexAlways(id, index) == TRUE

\* `id in frame.index`
InIndex(id, index) == id \in Range(index)

\* rating > min_rating_threshold; a comparison with NaN is False.
GreaterThan(x, thr) == ~IsNaN(x) /\ x[1] > thr * x[2]

\* frame.loc[id].sort_values(ascending=False): the default sort is not
\* stable, so every order of the index that is descending in the row's
\* values is a possible outcome; equal values may come out in any order.
SortValuesDescending(frame, id) ==
    {p \in [1..Len(frame.index) -> Range(frame.index)] :
        /\ Range(p) = Range(frame.index)
        /\ \A k \in 1..(Len(p) - 1) :
              ~RLess(frame.values[id, p[k]], frame.values[id, p[k + 1]])}

\* `.iloc[1:]`
Iloc1(order) == SubSeq(order, 2, Len(order))

\* high_rated_items with >= in place of >.
HighRatedItemsInclusive(p, u, thr) ==
    SelectSeq(p.columns, LAMBDA i : ~IsNaN(p.values[u, i])
                                    /\ p.values[u, i][1] >= thr * p.values[u, i][2])

\* user_ratings[user_ratings > min_rating_threshold].index.tolist()
high_rated_items(p, u, thr) ==
    SelectSeq(p.columns, LAMBDA i : GreaterThan(p.values[u, i], thr))

\* the loop over similar_users.index, extending recommendations
RECURSIVE Recommendations(_, _, _)
Recommendations(p, walk, thr) ==
    IF walk = <<>> THEN <<>>
    ELSE high_rated_items(p, Head(walk), thr) \o Recommendations(p, Tail(walk), thr)

\* already_rated taking a rating of 0 for no rating.
AlreadyRatedNonZero(p, user_id) ==
    SelectSeq(p.columns, LAMBDA i : p.values[user_id, i][1] # 0)

\* pivot.loc[user_id].dropna().index.tolist()
already_rated(p, user_id) ==
    SelectSeq(p.columns, LAMBDA i : ~IsNaN(p.values[user_id, i]))

\* list(dict.fromkeys(s)): each key once, at its first position
RECURSIVE DictFromKeys(_)
DictFromKeys(s) ==
    IF s = <<>> THEN <<>>
    ELSE LET init == DictFromKeys(SubSeq(s, 1, Len(s) - 1))
         IN IF s[Len(s)] \in Range(init) THEN init ELSE Append(init, s[Len(s)])

unique_recs(p, user_id, recs) ==
    SelectSeq(DictFromKeys(recs), LAMBDA i : i \notin Range(already_rated(p, user_id)))

NoFrame == [index |-> <<>>, columns |-> <<>>, values |-> <<>>]
NoCall == [fn |-> "none", id |-> 0, n |-> 0, thr |-> 0]

(* ------------------------------- actions ------------------------------ *)
Loaded(tables) ==
    /\ ratings_df \in tables
    /\ pivot = NoFrame
    /\ user_sim_df = NoFrame
    /\ item_sim_df = NoFrame
    /\ pc = "loaded"
    /\ call = NoCall
    /\ ranked = <<>>
    /\ similar_users = <<>>
    /\ result = <<>>
    /\ raised = "none"

Init == Loaded(RatingTables)
InitWide == Loaded(WideRatingTables)

\* app.py: pivot = build_pivot_table(data_df)
BuildPivotTable ==
    /\ pc = "loaded"
    /\ pivot' = build_pivot_table(ratings_df)
    /\ pc' = "pivot"
    /\ UNCHANGED <<ratings_df, user_sim_df, item_sim_df, call, ranked,
                   similar_users, result, raised>>

\* app.py: user_sim_df = compute_user_similarity(pivot)
ComputeUserSimilarity ==
    /\ pc = "pivot"
    /\ IF CheckArrayFails(fillna(pivot, Zero))
       THEN /\ pc' = "failed"
            /\ raised' = "ValueError"
            /\ UNCHANGED user_sim_df
       ELSE /\ pc' = "user_sim"
            /\ user_sim_df' = compute_user_similarity(pivot)
            /\ UNCHANGED raised
    /\ UNCHANGED <<ratings_df, pivot, item_sim_df, call, ranked,
                   similar_users, result>>

\* app.py: item_sim_df = compute_item_similarity(pivot)
ComputeItemSimilarity ==
    /\ pc = "user_sim"
    /\ IF CheckArrayFails(Transpose(fillna(pivot, Zero)))
       THEN /\ pc' = "failed"
            /\ raised' = "ValueError"
            /\ UNCHANGED item_sim_df
       ELSE /\ pc' = "ready"
            /\ item_sim_df' = compute_item_similarity(pivot)
            /\ UNCHANGED raised
    /\ UNCHANGED <<ratings_df, pivot, user_sim_df, call, ranked,
                   similar_users, result>>

recommend_for_user(user_id, n_recommendations, min_rating_threshold) ==
    /\ pc = "ready"
    /\ call' = [fn |-> "recommend_for_user", id |-> user_id,
                n |-> n_recommendations, thr |-> min_rating_threshold]
    /\ IF ~InIndex(user_id, pivot.index)
       THEN /\ result' = <<>>
            /\ ranked' = <<>>
            /\ similar_users' = <<>>
            /\ raised' = "none"
       ELSE IF user_id \notin Range(user_sim_df.index)
       THEN \* user_similarity_df.loc[user_id] on a label that is not there
            /\ result' = <<>>
            /\ ranked' = <<>>
            /\ similar_users' = <<>>
            /\ raised' = "KeyError"
       ELSE \E order \in SortValuesDescending(user_sim_df, user_id) :
            /\ ranked' = order
            /\ similar_users' = Iloc1(order)
            /\ result' = Take(unique_recs(pivot, user_id,
                                  Recommendations(pivot, Iloc1(order),
                                                  min_rating_threshold)),
                              n_recommendations)
            /\ raised' = "none"
    /\ pc' = "done"
    /\ UNCHANGED <<ratings_df, pivot, user_sim_df, item_sim_df>>

recommend_similar_items(item_id, n_recommendations) ==
    /\ pc = "ready"
    /\ call' = [fn |-> "recommend_similar_items", id |-> item_id,
                n |-> n_recommendations, thr |-> 0]
    /\ similar_users' = <<>>
    /\ IF ~InIndex(item_id, item_sim_df.index)
       THEN /\ result' = <<>>
            /\ ranked' = <<>>
            /\ raised' = "none"
       ELSE IF item_id \notin Range(item_sim_df.index)
       THEN \* item_similarity_df.loc[item_id] on a label that is not there
            /\ result' = <<>>
            /\ ranked' = <<>>
            /\ raised' = "KeyError"
       ELSE \E series \in SortValuesDescending(item_sim_df, item_id) :
            /\ ranked' = series
            /\ result' = Take(Iloc1(series), n_recommendations)
            /\ raised' = "none"
    /\ pc' = "done"
    /\ UNCHANGED <<ratings_df, pivot, user_sim_df, item_sim_df>>

RecommendForUser ==
    \E user_id \in QueryUsers, n \in 1..MaxN, thr \in Thresholds :
        recommend_for_user(user_id, n, thr)

RecommendSimilarItems ==
    \E item_id \in QueryItems, n \in 1..MaxN :
        recommend_similar_items(item_id, n)

Next ==
    \/ BuildPivotTable
    \/ ComputeUserSimilarity
    \/ ComputeItemSimilarity
    \/ RecommendForUser
    \/ RecommendSimilarItems

Spec == Init /\ [][Next]_vars

\* The same program over the longer rating tables.
SpecWide == InitWide /\ [][Next]_vars

(* ========================= properties ================================= *)
\* The vocabulary of the properties, written on the state alone.
ReturnedForUser == pc = "done" /\ call.fn = "recommend_for_user"
ReturnedSimilarItems == pc = "done" /\ call.fn = "recommend_similar_items"
KnownUser == call.id \in Range(pivot.index)
KnownItem == call.id \in Range(item_sim_df.index)
OtherUsers == Range(pivot.index) \ {call.id}
OtherItems == Range(item_sim_df.index) \ {call.id}
Rated(u, i) == pivot.values[u, i][2] # 0
RatedAbove(u, i, thr) ==
    pivot.values[u, i][2] # 0 /\ pivot.values[u, i][1] > thr * pivot.values[u, i][2]
RatedExactly(u, i, thr) ==
    pivot.values[u, i][2] # 0 /\ pivot.values[u, i][1] = thr * pivot.values[u, i][2]
Min(a, b) == IF a < b THEN a ELSE b
PosIn(s, x) == CHOOSE k \in DOMAIN s : s[k] = x
QualifyingItems ==
    {i \in Range(pivot.columns) :
        /\ ~Rated(call.id, i)
        /\ \E u \in OtherUsers : RatedAbove(u, i, call.thr)}

\* C1: recommend_for_user never returns an item whose cell in the target
\* user's pivot row is non-absent, whatever the rating in that cell.
C1_NeverReturnsRated ==
    (ReturnedForUser /\ KnownUser) =>
        \A k \in DOMAIN result : ~Rated(call.id, result[k])

\* A neighbour rated above the threshold an item the target rated with 0,
\* and the call still returned something.
C1_Witness ==
    /\ ReturnedForUser /\ KnownUser /\ result # <<>>
    /\ \E u \in Range(similar_users) \ {call.id}, i \in Range(pivot.columns) :
          /\ RatedAbove(u, i, call.thr)
          /\ pivot.values[call.id, i] = Zero

\* C2: the users walked as neighbours are exactly the users other than
\* user_id: user_id is never walked and no other user is left out.
C2_NeighboursAreTheOthers ==
    (ReturnedForUser /\ KnownUser) =>
        /\ Range(similar_users) = OtherUsers
        /\ Len(similar_users) = Cardinality(OtherUsers)

\* C3: recommend_similar_items never returns item_id itself; the result is
\* the first n of the other items in descending similarity to item_id.
C3_NeverReturnsItself ==
    (ReturnedSimilarItems /\ KnownItem) =>
        /\ Range(result) \subseteq OtherItems
        /\ Len(result) = Min(call.n, Cardinality(OtherItems))
        /\ \A k \in 1..(Len(result) - 1) :
              ~RLess(item_sim_df.values[call.id, result[k]],
                     item_sim_df.values[call.id, result[k + 1]])

\* C4: every returned item is rated strictly above min_rating_threshold by
\* a user other than user_id; an item all other users rate at most the
\* threshold, or not at all, is never returned.
C4_StrictThreshold ==
    (ReturnedForUser /\ KnownUser) =>
        \A k \in DOMAIN result :
            \E u \in OtherUsers : RatedAbove(u, result[k], call.thr)

\* A walked neighbour rated an unrated item exactly at the threshold, no
\* other user rated it above, and something else was returned.
C4_Witness ==
    /\ ReturnedForUser /\ KnownUser /\ result # <<>>
    /\ \E u \in Range(similar_users) \ {call.id}, i \in Range(pivot.columns) :
          /\ RatedExactly(u, i, call.thr)
          /\ ~Rated(call.id, i)
          /\ i \notin Range(result)

\* C5: for n >= 1 the returned list has exactly min(n, number of qualifying
\* items) entries: for recommend_for_user the items some other user rated
\* strictly above the threshold and user_id did not rate, for
\* recommend_similar_items the items of the index other than item_id.
C5_LengthIsMin ==
    /\ (ReturnedForUser /\ KnownUser) =>
          Len(result) = Min(call.n, Cardinality(QualifyingItems))
    /\ (ReturnedSimilarItems /\ KnownItem) =>
          Len(result) = Min(call.n, Cardinality(OtherItems))

\* C6: on an empty rating table the pipeline completes without an error:
\* no step raises, the pivot and both similarity matrices are empty, and a
\* ranking call returns the empty list.
C6_EmptyPipelineCompletes ==
    (ratings_df = <<>>) =>
        /\ pc # "failed"
        /\ raised = "none"
        /\ pc # "loaded" => (pivot.index = <<>> /\ pivot.columns = <<>>)
        /\ pc = "done" => result = <<>>

\* C7: an unknown identifier is a normal empty result: recommend_for_user
\* returns [] when user_id is not in the pivot's row index, and
\* recommend_similar_items returns [] when item_id is not in the
\* similarity matrix's index; neither raises.
C7_UnknownIdIsEmpty ==
    /\ (ReturnedForUser /\ ~KnownUser) => (result = <<>> /\ raised = "none")
    /\ (ReturnedSimilarItems /\ ~KnownItem) => (result = <<>> /\ raised = "none")

\* recommend_for_user returned for a user id no record of the table has,
\* over a pivot in which other users rated items above the threshold.
C7_Witness ==
    /\ ReturnedForUser /\ ~KnownUser
    /\ \E u \in Range(pivot.index), i \in Range(pivot.columns) :
          RatedAbove(u, i, call.thr)

StrictlyAscending(s) == \A k \in 1..(Len(s) - 1) : s[k] < s[k + 1]
RowsOf(u, i) == {k \in DOMAIN ratings_df :
                    ratings_df[k].User_ID = u /\ ratings_df[k].Item_ID = i}
RECURSIVE RatingSum(_)
RatingSum(K) ==
    IF K = {} THEN 0
    ELSE LET k == CHOOSE x \in K : TRUE
         IN ratings_df[k].Rating + RatingSum(K \ {k})

\* C8: the pivot's row index is the ascending sorted set of the distinct
\* user ids of the input, its column index that of the distinct item ids;
\* cell (u, i) is the arithmetic mean of the ratings of the records with
\* that pair, and is absent, not zero, when there is no such record.
\* Stated of the pivot build_pivot_table returned; no later step changes it.
C8_PivotShape ==
    (pc = "pivot") =>
        /\ StrictlyAscending(pivot.index)
        /\ StrictlyAscending(pivot.columns)
        /\ Range(pivot.index) = {ratings_df[k].User_ID : k \in DOMAIN ratings_df}
        /\ Range(pivot.columns) = {ratings_df[k].Item_ID : k \in DOMAIN ratings_df}
        /\ \A u \in Range(pivot.index), i \in Range(pivot.columns) :
              IF RowsOf(u, i) = {}
              THEN pivot.values[u, i] = NaN
              ELSE /\ pivot.values[u, i][2] > 0
                   /\ pivot.values[u, i][1] * Cardinality(RowsOf(u, i))
                        = pivot.values[u, i][2] * RatingSum(RowsOf(u, i))

\* The pivot of a table with two different ratings of one pair, a pair with
\* no record, and ids that are not consecutive from 1.
C8_Witness ==
    /\ pc = "pivot"
    /\ pivot.index = <<2, 3>>
    /\ \E u \in Range(pivot.index), i, j \in Range(pivot.columns) :
          /\ pivot.values[u, i] = One
          /\ Cardinality(RowsOf(u, i)) = 2
          /\ RowsOf(u, j) = {}

NonZeroUser(u) == \E i \in Range(pivot.columns) : pivot.values[u, i][1] # 0
NonZeroItem(i) == \E u \in Range(pivot.index) : pivot.values[u, i][1] # 0

\* C9: in both similarity matrices the diagonal cell of a user/item with a
\* non-zero rating vector is 1.0, and a user/item whose vector is all zero
\* has similarity 0 to every entity, itself included.  Stated of the two
\* matrices as computed; the ranking calls leave them unchanged.
C9_SelfSimilarity ==
    (pc = "ready") =>
        /\ \A u \in Range(user_sim_df.index) :
              IF NonZeroUser(u)
              THEN user_sim_df.values[u, u] = One
              ELSE \A v \in Range(user_sim_df.index) :
                       /\ user_sim_df.values[u, v] = Zero
                       /\ user_sim_df.values[v, u] = Zero
        /\ \A i \in Range(item_sim_df.index) :
              IF NonZeroItem(i)
              THEN item_sim_df.values[i, i] = One
              ELSE \A j \in Range(item_sim_df.index) :
                       /\ item_sim_df.values[i, j] = Zero
                       /\ item_sim_df.values[j, i] = Zero

\* Both matrices are computed, over a pivot with an all-zero user and an
\* all-zero item next to non-zero ones, one of them an average.
C9_Witness ==
    /\ pc = "ready"
    /\ \E u, v \in Range(pivot.index) : ~NonZeroUser(u) /\ NonZeroUser(v)
    /\ \E i, j \in Range(pivot.columns) : ~NonZeroItem(i) /\ NonZeroItem(j)
    /\ \E u \in Range(pivot.index), i \in Range(pivot.columns) :
          pivot.values[u, i] = One

\* The positions, in the ranking sort_values returned, of the users other
\* than user_id that rated item i strictly above the threshold, and the
\* first of them.
Surfacers(i) ==
    {k \in DOMAIN ranked :
        ranked[k] # call.id /\ RatedAbove(ranked[k], i, call.thr)}
FirstSurfacer(i) == CHOOSE k \in Surfacers(i) : \A l \in Surfacers(i) : k <= l

\* C10: the list recommend_for_user returns is duplicate-free and in
\* first-occurrence order of the neighbours' item lists: when item i
\* precedes item j, the best-ranked other user that rated i strictly above
\* the threshold is ranked no later than the best-ranked one that rated j
\* so, and when it is the same user, i's column precedes j's.
C10_FirstOccurrenceOrder ==
    (ReturnedForUser /\ KnownUser) =>
        /\ \A k, l \in DOMAIN result : result[k] = result[l] => k = l
        /\ \A k, l \in DOMAIN result :
              k < l =>
                /\ FirstSurfacer(result[k]) <= FirstSurfacer(result[l])
                /\ FirstSurfacer(result[k]) = FirstSurfacer(result[l])
                      => PosIn(pivot.columns, result[k]) < PosIn(pivot.columns, result[l])

\* The same order property counted over the users the loop walked instead
\* of over all other users: the de-duplication itself keeps first
\* occurrences, whoever is walked.
WalkSurfacers(i) ==
    {k \in DOMAIN similar_users :
        similar_users[k] # call.id /\ RatedAbove(similar_users[k], i, call.thr)}
FirstWalkSurfacer(i) ==
    CHOOSE k \in WalkSurfacers(i) : \A l \in WalkSurfacers(i) : k <= l
WalkOrderKept ==
    (ReturnedForUser /\ KnownUser) =>
        /\ \A k, l \in DOMAIN result : result[k] = result[l] => k = l
        /\ \A k \in DOMAIN result : WalkSurfacers(result[k]) # {}
        /\ \A k, l \in DOMAIN result :
              k < l =>
                /\ FirstWalkSurfacer(result[k]) <= FirstWalkSurfacer(result[l])
                /\ FirstWalkSurfacer(result[k]) = FirstWalkSurfacer(result[l])
                      => PosIn(pivot.columns, result[k]) < PosIn(pivot.columns, result[l])

====
